---- MODULE Spec2Model ----
(***************************************************************************)
(* FalconAPIClient (src/src/crowdstrike/FalconAPIClient.ts): one client    *)
(* instance driven by one flow of control.  The flow runs one iterate*     *)
(* method; every await of the code is a step of the machine (Spec).        *)
(* ConcSpec lets several flows call authenticate() on the one client at    *)
(* the same time; LoopSpec follows the pagination loop alone, under        *)
(* fairness, in runs whose page requests all succeed.                      *)
(*                                                                         *)
(* Time.  The code reads the clock in three places (isValidToken, the      *)
(* expiry of a new token, the sleep of handle429Error) and each of them    *)
(* only relates a stored timestamp to the current time.  The model keeps   *)
(* every stored timestamp relative to the current time, in seconds:        *)
(* getUnixTimeNow() is 0 and, when d seconds pass, every stored timestamp  *)
(* is lowered by d (Elapsed).  A timestamp far enough in the past that no  *)
(* reader distinguishes it further is not lowered any more.  Every         *)
(* duration the environment chooses is a whole number of seconds; timer    *)
(* granularity below one second is not modelled.                           *)
(*                                                                         *)
(* retry() is @lifeomic/attempt's: the attempt context starts with         *)
(* attemptNum = 0 and attemptsRemaining = maxAttempts; attemptsRemaining   *)
(* is decremented before an attempt, handleError is awaited after a failed *)
(* attempt, then the error is re-thrown when the context was aborted or no *)
(* attempts remain, else attemptNum is incremented, the backoff delay is   *)
(* slept and the next attempt is made.  Responses are taken to arrive      *)
(* within attemptOptions.timeout, so the per-attempt timer never fires.    *)
(***************************************************************************)
EXTENDS Integers, Sequences, FiniteSets, TLC

\* ------------------------------------------------------------ bounds
\* Largest maxAttempts a constructed client is given.
MaxAttempts == 3
\* A pagination run is followed as long as its page requests, retried to
\* the full, issue at most this many resource requests.
MaxRequests == 4
\* Largest number of resources on one page.
MaxItems == 1
\* Largest total the server reports in meta.pagination.
MaxTotal == 2
\* Largest number of items the server's collection holds in the
\* specification of runs whose page requests all succeed.
MaxCollection == 3
\* Flows of control that share the client in the specification of
\* concurrent callers.
MaxFlows == 2

\* ------------------------------------------------- program constants
reserveLimit == 30
cooldownPeriod == 1000
delay == 30000
factor == 2
\* The extra minute handle429Error adds to retryAfter.
extraSeconds == 60

\* ------------------------------------------------------- environment
\* An optional value (undefined / null in the code) is <<>>, a present one <<v>>.
None == <<>>
Some(v) == <<v>>
\* Seconds a request may take until its response (or fault) arrives.
Latencies == {0, 1}
\* expires_in of a successful token response, in seconds; the code takes
\* the number as it comes, 0 included.
ExpiresIns == {0, 1, 45}
\* Outcomes of a request to the token endpoint: an HTTP status, or 0 for a
\* rejected fetch (a network fault: the error carries no status).
TokenStatuses == {0, 200, 400, 403, 500}
\* Outcomes of a request to a resource endpoint, likewise.
ResourceStatuses == {0, 200, 401, 403, 429, 500}
\* X-RateLimit-Remaining of a 429 response; None when the header is absent.
Remainings == {None, Some(0), Some(10), Some(100)}
\* X-RateLimit-RetryAfter of a 429 response, in seconds relative to the time
\* the response arrives; None when the header is absent.
RetryAfterOffsets == {None, Some(-100), Some(5)}
\* meta.pagination.total of a page response; None when absent.
Totals == {None} \cup {Some(t) : t \in 0..MaxTotal}

VARIABLES
    token,            \* this.token: NoToken or [token, expiresAt]
    attemptOptions,   \* this.attemptOptions
    rateLimitState,   \* this.rateLimitState
    pc,               \* position of the flow
    authRet,          \* caller of authenticate(): "exec" or "handleError"
    callRet,          \* caller of executeAPIRequestWithRetries
    authContext,      \* attempt context of requestOAuth2Token's retry
    authError,        \* error of the last failed token request
    authResult,       \* outcome of authenticate(): Ok or the error thrown
    authEntry,        \* the token held when authenticate() was entered, and
                      \* the token requests it has sent since
    attemptContext,   \* attempt context of executeAPIRequestWithRetries' retry
    error,            \* error of the last failed resource attempt
    callResult,       \* outcome of executeAPIRequestWithRetries
    attempts,         \* resource requests of the current call, in order
    outcomes,         \* their outcomes, in order
    tokenWrites,      \* assignments to this.token during the current call
    remainingHeader,  \* X-RateLimit-Remaining of the call's last response
    lastWait,         \* what handle429Error slept for the last attempt
    variant,          \* which iterate* method runs
    paginationParams, \* paginateResources locals
    seen,
    total,
    finished,
    response,         \* the page response being processed
    pageCount,        \* page requests issued by the run
    handled,          \* pages the caller's handler was invoked with, in order
    bulk,             \* pages fetchDevices was called for, in order
    result,           \* outcome of the run
    flows             \* concurrent callers of authenticate(): per flow its
                      \* position, attempt context and pending timer

clientVars == <<token, attemptOptions, rateLimitState>>
authVars   == <<authContext, authError, authResult, authEntry>>
retryVars  == <<attemptContext, error, callResult, attempts, outcomes>>
callVars   == <<tokenWrites, remainingHeader, lastWait>>
pageVars   == <<variant, paginationParams, seen, total, finished, response,
                pageCount, handled, bulk, result>>
vars == <<clientVars, pc, authRet, callRet, authVars, retryVars, callVars,
          pageVars, flows>>

\* ------------------------------------------------------------ helpers
\* Unix time in seconds; stored timestamps are relative to it.
getUnixTimeNow == 0

\* sleep(ms): the milliseconds the sleeper is suspended.
sleep(ms) == IF ms > 0 THEN ms ELSE 0

\* A stored timestamp ts after ms milliseconds have passed; timestamps at
\* or below floor are left as they are.
Elapsed(ts, ms, floor) ==
    IF ts <= floor THEN ts
    ELSE IF ts - (ms \div 1000) < floor THEN floor
    ELSE ts - (ms \div 1000)

\* this.token before the first exchange (undefined in the code).
NoToken == [token |-> "", expiresAt |-> 0]

\* this.token after ms milliseconds: isValidToken is the only reader of
\* expiresAt, so an expiry of a second ago stands for every earlier one.
TokenAfter(ms) ==
    IF token = NoToken THEN NoToken
    ELSE [token EXCEPT !.expiresAt = Elapsed(@, ms, -1)]

\* this.rateLimitState after ms milliseconds: handle429Error is the only
\* reader of retryAfter and sleeps retryAfter + extraSeconds - now.
StateAfter(ms) ==
    IF rateLimitState.retryAfter = None THEN rateLimitState
    ELSE [rateLimitState EXCEPT
            !.retryAfter = Some(Elapsed(@[1], ms, 0 - extraSeconds - 1))]

\* Mutant: a token that expires this very second still counts as valid.
isValidToken_Inclusive(t) == t.expiresAt >= getUnixTimeNow

\* Lines 434-436.
isValidToken(t) == t.expiresAt > getUnixTimeNow

RECURSIVE pow(_, _)
pow(b, e) == IF e <= 0 THEN 1 ELSE b * pow(b, e - 1)

\* retry()'s default delay before attempt number ctx.attemptNum + 1.
calculateDelay(ctx) ==
    IF attemptOptions.delay = 0 THEN 0
    ELSE attemptOptions.delay * pow(attemptOptions.factor, ctx.attemptNum - 1)

NewContext == [attemptNum |-> 0,
               attemptsRemaining |-> attemptOptions.maxAttempts,
               aborted |-> FALSE]
NoContext == [attemptNum |-> 0, attemptsRemaining |-> 0, aborted |-> FALSE]

NoError == [kind |-> "none", status |-> 0, endpoint |-> "none"]
\* Result of a call that returned normally.
Ok == [kind |-> "ok", status |-> 200, endpoint |-> "none"]
Pending == [kind |-> "pending", status |-> 0, endpoint |-> "none"]
NoWait  == [attempt |-> 0, sleepSeconds |-> 0, slept |-> 0, cooldown |-> FALSE]
NoState == [limitRemaining |-> 0, perMinuteLimit |-> 0, retryAfter |-> None]
NoResponse == [resources |-> 0, total |-> None]
NoEntry == [present |-> FALSE, expiresAt |-> 0, writes |-> 0, requests |-> 0]
Flows == 1..MaxFlows
\* A flow that is not inside authenticate().
IdleFlow == [pc |-> "idle", context |-> NoContext, timer |-> 0]

\* --------------------------------------------------------------- Init
\* The client after construction (the constructor leaves token and
\* rateLimitState unset), before any iterate* call.
Init ==
    /\ token = NoToken
    /\ \E m \in 1..MaxAttempts :
         attemptOptions = [maxAttempts |-> m, delay |-> delay, factor |-> factor]
    /\ rateLimitState = NoState
    /\ pc = "idle"
    /\ authRet = "none"
    /\ callRet = "none"
    /\ authContext = NoContext
    /\ authError = NoError
    /\ authResult = Pending
    /\ authEntry = NoEntry
    /\ attemptContext = NoContext
    /\ error = NoError
    /\ callResult = Pending
    /\ attempts = <<>>
    /\ outcomes = <<>>
    /\ tokenWrites = 0
    /\ remainingHeader = None
    /\ lastWait = NoWait
    /\ variant = "none"
    /\ paginationParams = None
    /\ seen = 0
    /\ total = Some(0)
    /\ finished = FALSE
    /\ response = NoResponse
    /\ pageCount = 0
    /\ handled = <<>>
    /\ bulk = <<>>
    /\ result = Pending
    /\ flows = [f \in Flows |-> IdleFlow]

\* ------------------------------------------- authenticate (lines 78-83)
\* !this.token || !isValidToken(this.token)
MustExchange == token = NoToken \/ ~isValidToken(token)

\* authenticate() is entered: a valid token is returned without a request,
\* otherwise requestOAuth2Token starts its retry().
authenticate ==
    /\ pc = "authenticate"
    /\ authEntry' = [present |-> token # NoToken,
                     expiresAt |-> token.expiresAt, writes |-> tokenWrites,
                     requests |-> 0]
    /\ IF MustExchange
       THEN /\ pc' = "authRequestAttempt"
            /\ authContext' = NewContext
            /\ authResult' = Pending
       ELSE /\ pc' = "authenticated"
            /\ authResult' = Ok
            /\ UNCHANGED authContext
    /\ UNCHANGED <<clientVars, authRet, callRet, authError, retryVars,
                   callVars, pageVars>>
    /\ UNCHANGED flows

\* ------------------------------------ requestOAuth2Token (lines 244-307)
\* retry() starts an attempt: the POST to the token endpoint is sent.
authRequestAttempt ==
    /\ pc = "authRequestAttempt"
    /\ authContext' = [authContext EXCEPT
                         !.attemptsRemaining = authContext.attemptsRemaining - 1]
    /\ authEntry' = [authEntry EXCEPT !.requests = authEntry.requests + 1]
    /\ pc' = "authInFlight"
    /\ UNCHANGED <<clientVars, authRet, callRet, authError, authResult,
                   retryVars, callVars, pageVars>>
    /\ UNCHANGED flows

\* The token of a successful exchange (lines 295-306); access_token is an
\* opaque string.
NewToken(expires_in) ==
    [token |-> "access_token", expiresAt |-> getUnixTimeNow + expires_in]

\* Mutant: a failed token request drops the held token.
authResponse_DropsTokenOnFailure ==
    /\ pc = "authInFlight"
    /\ \E st \in TokenStatuses, lat \in Latencies :
         /\ rateLimitState' = StateAfter(lat * 1000)
         /\ IF st = 200
            THEN /\ \E exp \in ExpiresIns : token' = NewToken(exp)
                 /\ tokenWrites' = tokenWrites + 1
                 /\ authResult' = Ok
                 /\ pc' = "authenticated"
                 /\ UNCHANGED authError
            ELSE /\ token' = NoToken
                 /\ authError' = [kind |-> IF st = 0 THEN "FetchError"
                                           ELSE "APIError",
                                  status |-> st, endpoint |-> "token"]
                 /\ pc' = "authHandleError"
                 /\ UNCHANGED <<authResult, tokenWrites>>
    /\ UNCHANGED <<attemptOptions, authRet, callRet, authContext, authEntry,
                   retryVars, remainingHeader, lastWait, pageVars>>
    /\ UNCHANGED flows

\* The token endpoint answers (or the fetch rejects).  On success
\* requestOAuth2Token returns the token and authenticate stores it
\* (line 80).
authResponse ==
    /\ pc = "authInFlight"
    /\ \E st \in TokenStatuses, lat \in Latencies :
         /\ rateLimitState' = StateAfter(lat * 1000)
         /\ IF st = 200
            THEN /\ \E exp \in ExpiresIns : token' = NewToken(exp)
                 /\ tokenWrites' = tokenWrites + 1
                 /\ authResult' = Ok
                 /\ pc' = "authenticated"
                 /\ UNCHANGED authError
            ELSE /\ token' = TokenAfter(lat * 1000)
                 /\ authError' = [kind |-> IF st = 0 THEN "FetchError"
                                           ELSE "APIError",
                                  status |-> st, endpoint |-> "token"]
                 /\ pc' = "authHandleError"
                 /\ UNCHANGED <<authResult, tokenWrites>>
    /\ UNCHANGED <<attemptOptions, authRet, callRet, authContext, authEntry,
                   retryVars, remainingHeader, lastWait, pageVars>>
    /\ UNCHANGED flows

\* Mutant: a 400 is not told apart from the failures that are retried.
AuthHandling_400Logged(err) ==
    IF err.status = 403 THEN "throw" ELSE "log"

\* What handleError of the token retry does with an error (lines 277-286):
\* a 400 aborts the retry context, a 403 throws an AuthenticationError out
\* of handleError, anything else is only logged.
AuthHandling(err) ==
    IF err.status = 400 THEN "abort"
    ELSE IF err.status = 403 THEN "throw"
    ELSE "log"

\* handleError of the token retry (lines 276-292), then retry()'s decision:
\* an error thrown by handleError rejects the retry, an aborted context
\* re-throws the attempt's error, any other failure is retried while
\* attempts remain.
authHandleError ==
    /\ pc = "authHandleError"
    /\ LET h == AuthHandling(authError)
           aborted == authContext.aborted \/ h = "abort" IN
       IF h = "throw"
       THEN /\ authResult' = [kind |-> "AuthenticationError",
                              status |-> authError.status,
                              endpoint |-> "token"]
            /\ pc' = "authenticated"
            /\ UNCHANGED authContext
       ELSE IF aborted \/ authContext.attemptsRemaining = 0
       THEN /\ authResult' = authError
            /\ pc' = "authenticated"
            /\ authContext' = [authContext EXCEPT !.aborted = aborted]
       ELSE /\ authContext' = [authContext EXCEPT
                                 !.attemptNum = authContext.attemptNum + 1]
            /\ pc' = "authBackoff"
            /\ UNCHANGED authResult
    /\ UNCHANGED <<clientVars, authRet, callRet, authError, authEntry,
                   retryVars, callVars, pageVars>>
    /\ UNCHANGED flows

\* retry() sleeps the backoff delay before the next token request.
authBackoff ==
    /\ pc = "authBackoff"
    /\ LET ms == sleep(calculateDelay(authContext)) IN
       /\ token' = TokenAfter(ms)
       /\ rateLimitState' = StateAfter(ms)
    /\ pc' = "authRequestAttempt"
    /\ UNCHANGED <<attemptOptions, authRet, callRet, authVars, retryVars,
                   callVars, pageVars>>
    /\ UNCHANGED flows

\* authenticate() settles and its caller resumes: line 313 starts the retry
\* of the resource request, line 373 finishes handleError; a rejection
\* leaves either of them as the rejection of the whole call.
authenticated ==
    /\ pc = "authenticated"
    /\ IF authResult # Ok
       THEN /\ callResult' = authResult
            /\ pc' = "returned"
            /\ UNCHANGED attemptContext
       ELSE IF authRet = "exec"
       THEN /\ attemptContext' = NewContext
            /\ pc' = "requestAttempt"
            /\ UNCHANGED callResult
       ELSE /\ pc' = "handled"
            /\ UNCHANGED <<attemptContext, callResult>>
    /\ authContext' = NoContext
    /\ authError' = NoError
    /\ authResult' = Pending
    /\ authEntry' = NoEntry
    /\ UNCHANGED <<clientVars, authRet, callRet, error, attempts, outcomes,
                   callVars, pageVars>>
    /\ UNCHANGED flows

\* --------------------------- executeAPIRequestWithRetries (lines 309-389)
\* Entry of the call: line 313 awaits authenticate().
executeAPIRequestWithRetries(caller) ==
    /\ callRet' = caller
    /\ authRet' = "exec"
    /\ pc' = "authenticate"
    /\ UNCHANGED <<clientVars, authVars, retryVars, callVars>>

\* The call has settled and its caller took the outcome: the records of the
\* call are dropped.
CallDone ==
    /\ callRet' = "none"
    /\ authRet' = "none"
    /\ attemptContext' = NoContext
    /\ error' = NoError
    /\ callResult' = Pending
    /\ attempts' = <<>>
    /\ outcomes' = <<>>
    /\ tokenWrites' = 0
    /\ remainingHeader' = None
    /\ lastWait' = NoWait
    /\ UNCHANGED <<clientVars, authVars>>

\* requestAttempt is started by retry(): the request goes out with the
\* token held at this moment as its bearer credential (lines 319-325).
requestAttempt ==
    /\ pc = "requestAttempt"
    /\ attemptContext' = [attemptContext EXCEPT
                            !.attemptsRemaining = attemptContext.attemptsRemaining - 1]
    /\ attempts' = Append(attempts, [valid |-> isValidToken(token),
                                     tokenWrites |-> tokenWrites])
    /\ lastWait' = NoWait
    /\ pc' = "inFlight"
    /\ UNCHANGED <<clientVars, authRet, callRet, authVars, error, callResult,
                   outcomes, tokenWrites, remainingHeader, pageVars>>
    /\ UNCHANGED flows

\* The error requestAttempt throws for a status (lines 339-358); a rejected
\* fetch surfaces as the fetch error itself.
ClassifyError(st) ==
    [kind |-> CASE st = 0   -> "FetchError"
                [] st = 401 -> "AuthenticationError"
                [] st = 403 -> "AuthorizationError"
                [] OTHER    -> "APIError",
     status |-> st, endpoint |-> "resource"]

\* Number(header) of line 328: an absent header (null) reads 0.
Number(header) == IF header = None THEN 0 ELSE header[1]

\* this.rateLimitState as lines 327-333 read it from the headers of a
\* response.  Only a 429 response carries varying headers: the state is
\* read by handle429Error alone, which runs on the state the 429 response
\* itself has just written.
ReadRateLimitState(st, rem, ra) ==
    IF st = 429
    THEN [limitRemaining |-> Number(rem), perMinuteLimit |-> 6000,
          retryAfter |-> IF ra = None THEN None
                         ELSE Some(getUnixTimeNow + ra[1])]
    ELSE [limitRemaining |-> 100, perMinuteLimit |-> 6000, retryAfter |-> None]

\* The response (or the rejection of fetch) arrives (lines 327-358).
requestResponse ==
    /\ pc = "inFlight"
    /\ \E st \in ResourceStatuses, lat \in Latencies :
         /\ token' = TokenAfter(lat * 1000)
         /\ outcomes' = Append(outcomes, st)
         /\ IF st = 0
            THEN /\ rateLimitState' = StateAfter(lat * 1000)
                 /\ UNCHANGED remainingHeader
            ELSE \E rem \in Remainings, ra \in RetryAfterOffsets :
                   /\ rateLimitState' = ReadRateLimitState(st, rem, ra)
                   /\ remainingHeader' = IF st = 429 THEN rem ELSE Some(100)
         /\ IF st = 200
            THEN /\ callResult' = Ok
                 /\ pc' = "returned"
                 /\ IF callRet = "page"
                    THEN \E n \in 0..MaxItems, t \in Totals :
                           response' = [resources |-> n, total |-> t]
                    ELSE UNCHANGED response
                 /\ UNCHANGED error
            ELSE /\ error' = ClassifyError(st)
                 /\ pc' = "handleError"
                 /\ UNCHANGED <<callResult, response>>
    /\ UNCHANGED <<attemptOptions, authRet, callRet, authVars, attemptContext,
                   attempts, tokenWrites, lastWait, variant, paginationParams,
                   seen, total, finished, pageCount, handled, bulk, result>>
    /\ UNCHANGED flows

\* Mutant: a 403 is only logged, like any other failure.
Handling_403Logged(err, ctx) ==
    IF err.status = 401
    THEN (IF ctx.attemptNum > 1 THEN "abort" ELSE "authenticate")
    ELSE IF err.status = 429 THEN "handle429Error"
    ELSE "log"

\* Mutant: a 429 is only logged, handle429Error is not called.
Handling_429Logged(err, ctx) ==
    IF err.status = 401
    THEN (IF ctx.attemptNum > 1 THEN "abort" ELSE "authenticate")
    ELSE IF err.status = 403 THEN "abort"
    ELSE "log"

\* What handleError does with an error (lines 369-381): a 401 aborts when
\* attemptContext.attemptNum > 1 and re-authenticates otherwise, a 403
\* aborts, a 429 waits in handle429Error, anything else is only logged.
Handling(err, ctx) ==
    IF err.status = 401
    THEN (IF ctx.attemptNum > 1 THEN "abort" ELSE "authenticate")
    ELSE IF err.status = 403 THEN "abort"
    ELSE IF err.status = 429 THEN "handle429Error"
    ELSE "log"

\* handleError of the resource retry (lines 363-387), up to its first await.
handleError ==
    /\ pc = "handleError"
    /\ LET h == Handling(error, attemptContext) IN
       /\ attemptContext' = IF h = "abort"
                            THEN [attemptContext EXCEPT !.aborted = TRUE]
                            ELSE attemptContext
       /\ authRet' = IF h = "authenticate" THEN "handleError" ELSE authRet
       /\ pc' = CASE h = "authenticate"   -> "authenticate"
                  [] h = "handle429Error" -> "handle429Error"
                  [] OTHER                -> "handled"
    /\ UNCHANGED <<clientVars, callRet, authVars, error, callResult, attempts,
                   outcomes, callVars, pageVars>>
    /\ UNCHANGED flows

\* ---------------------------------------- handle429Error (lines 391-431)
\* Mutant: the extra minute is left out.
timeToSleepInSeconds_NoExtraMinute ==
    IF rateLimitState.retryAfter # None
    THEN rateLimitState.retryAfter[1] - getUnixTimeNow
    ELSE 0

\* Lines 404-406.  A header that is present holds a unix timestamp of the
\* present era, which is truthy.
timeToSleepInSeconds ==
    IF rateLimitState.retryAfter # None
    THEN rateLimitState.retryAfter[1] + extraSeconds - getUnixTimeNow
    ELSE 0

\* Lines 418-421.
NeedsCooldown ==
    /\ rateLimitState.limitRemaining # 0
    /\ rateLimitState.limitRemaining <= reserveLimit

\* Both sleeps of handle429Error.
handle429Error ==
    /\ pc = "handle429Error"
    /\ LET first == sleep(timeToSleepInSeconds * 1000)
           ms == IF NeedsCooldown THEN first + sleep(cooldownPeriod) ELSE first
       IN
       /\ token' = TokenAfter(ms)
       /\ rateLimitState' = StateAfter(ms)
       /\ lastWait' = [attempt |-> Len(attempts),
                       sleepSeconds |-> timeToSleepInSeconds,
                       slept |-> first,
                       cooldown |-> NeedsCooldown]
    /\ pc' = "handled"
    /\ UNCHANGED <<attemptOptions, authRet, callRet, authVars, retryVars,
                   tokenWrites, remainingHeader, pageVars>>
    /\ UNCHANGED flows

\* Mutant: the attempts that remain are not looked at.
GivesUp_OnAbortOnly(ctx) == ctx.aborted

\* retry() gives up after handleError when the context was aborted or no
\* attempts remain.
GivesUp(ctx) == ctx.aborted \/ ctx.attemptsRemaining = 0

\* retry() after handleError returned: the error is re-thrown, or the next
\* attempt is due.
onError ==
    /\ pc = "handled"
    /\ IF GivesUp(attemptContext)
       THEN /\ callResult' = error
            /\ pc' = "returned"
            /\ UNCHANGED attemptContext
       ELSE /\ attemptContext' = [attemptContext EXCEPT
                                    !.attemptNum = attemptContext.attemptNum + 1]
            /\ pc' = "backoff"
            /\ UNCHANGED callResult
    /\ UNCHANGED <<clientVars, authRet, callRet, authVars, error, attempts,
                   outcomes, callVars, pageVars>>
    /\ UNCHANGED flows

\* retry() sleeps the backoff delay before the next resource attempt.
backoff ==
    /\ pc = "backoff"
    /\ LET ms == sleep(calculateDelay(attemptContext)) IN
       /\ token' = TokenAfter(ms)
       /\ rateLimitState' = StateAfter(ms)
    /\ pc' = "requestAttempt"
    /\ UNCHANGED <<attemptOptions, authRet, callRet, authVars, retryVars,
                   callVars, pageVars>>
    /\ UNCHANGED flows

\* ------------------------------------- paginateResources (lines 179-242)
\* An iterate* method is called: iterateDevices wraps the caller's handler
\* (lines 96-110), the other three pass it through (lines 119-159).
iterate ==
    /\ pc = "idle"
    /\ \E v \in {"iterateDevices", "iteratePreventionPolicyMemberIds"} :
         variant' = v
    /\ seen' = 0
    /\ total' = Some(0)
    /\ finished' = FALSE
    /\ paginationParams' = None
    /\ pc' = "pageRequest"
    /\ UNCHANGED <<clientVars, authRet, callRet, authVars, retryVars,
                   callVars, response, pageCount, handled, bulk, result>>
    /\ UNCHANGED flows

\* Top of the do-loop: the page request is handed to
\* executeAPIRequestWithRetries (lines 195-209).
pageRequest ==
    /\ pc = "pageRequest"
    /\ (pageCount + 1) * attemptOptions.maxAttempts <= MaxRequests
    /\ pageCount' = pageCount + 1
    /\ executeAPIRequestWithRetries("page")
    /\ UNCHANGED <<variant, paginationParams, seen, total, finished, response,
                   handled, bulk, result>>
    /\ UNCHANGED flows

\* The caller's handler runs on a page; it returns or throws.
InvokeHandler ==
    /\ handled' = Append(handled, pageCount)
    /\ \E throws \in BOOLEAN :
         IF throws
         THEN /\ result' = [kind |-> "HandlerError", status |-> 0,
                            endpoint |-> "none"]
              /\ pc' = "done"
         ELSE /\ pc' = "pageUpdate"
              /\ UNCHANGED result

\* Mutant: iterateDevices' callback calls fetchDevices for an empty page too.
pageReturned_FetchesEmptyPage ==
    /\ pc = "returned"
    /\ callRet = "page"
    /\ IF callResult # Ok
       THEN /\ result' = callResult
            /\ pc' = "done"
            /\ UNCHANGED handled
       ELSE IF variant = "iterateDevices"
       THEN /\ pc' = "fetchDevices"
            /\ UNCHANGED <<handled, result>>
       ELSE InvokeHandler
    /\ CallDone
    /\ UNCHANGED <<variant, paginationParams, seen, total, finished, response,
                   pageCount, bulk>>
    /\ UNCHANGED flows

\* The page request settled: its rejection ends the run, its response goes
\* to the callback (line 222).  iterateDevices' callback calls fetchDevices
\* for a non-empty page and returns at once for an empty one.
pageReturned ==
    /\ pc = "returned"
    /\ callRet = "page"
    /\ IF callResult # Ok
       THEN /\ result' = callResult
            /\ pc' = "done"
            /\ UNCHANGED handled
       ELSE IF variant = "iterateDevices"
       THEN /\ pc' = IF response.resources # 0 THEN "fetchDevices"
                     ELSE "pageUpdate"
            /\ UNCHANGED <<handled, result>>
       ELSE InvokeHandler
    /\ CallDone
    /\ UNCHANGED <<variant, paginationParams, seen, total, finished, response,
                   pageCount, bulk>>
    /\ UNCHANGED flows

\* fetchDevices (lines 161-177): one bulk request for the page's ids.
fetchDevices ==
    /\ pc = "fetchDevices"
    /\ bulk' = Append(bulk, pageCount)
    /\ executeAPIRequestWithRetries("devices")
    /\ UNCHANGED <<variant, paginationParams, seen, total, finished, response,
                   pageCount, handled, result>>
    /\ UNCHANGED flows

\* fetchDevices settled: its rejection ends the run, its records go to the
\* caller's handler (line 104).
devicesReturned ==
    /\ pc = "returned"
    /\ callRet = "devices"
    /\ IF callResult # Ok
       THEN /\ result' = callResult
            /\ pc' = "done"
            /\ UNCHANGED handled
       ELSE InvokeHandler
    /\ CallDone
    /\ UNCHANGED <<variant, paginationParams, seen, total, finished, response,
                   pageCount, bulk>>
    /\ UNCHANGED flows

\* Mutant: seen > total.
SeenAll_Strict(s, t) == t # None /\ s > t[1]

\* seen >= total (line 235): false when total is undefined.
SeenAll(s, t) == t # None /\ s >= t[1]

\* Mutant: the seen === 0 test is missing.
Finished_WithoutEmptyTest(s, t) == SeenAll(s, t)

\* finished = seen === 0 || seen >= total (line 235).
Finished(s, t) == s = 0 \/ SeenAll(s, t)

\* After the callback (lines 232-241): the cursor is adopted, seen and
\* total are updated and the loop condition is evaluated.
pageUpdate ==
    /\ pc = "pageUpdate"
    /\ paginationParams' = Some([total |-> response.total])
    /\ seen' = seen + response.resources
    /\ total' = response.total
    /\ finished' = Finished(seen', total')
    /\ IF finished'
       THEN /\ result' = Ok
            /\ pc' = "done"
       ELSE /\ pc' = "pageRequest"
            /\ UNCHANGED result
    /\ UNCHANGED <<clientVars, authRet, callRet, authVars, retryVars,
                   callVars, variant, response, pageCount, handled, bulk>>
    /\ UNCHANGED flows

Next ==
    \/ iterate
    \/ pageRequest
    \/ authenticate
    \/ authRequestAttempt
    \/ authResponse
    \/ authHandleError
    \/ authBackoff
    \/ authenticated
    \/ requestAttempt
    \/ requestResponse
    \/ handleError
    \/ handle429Error
    \/ onError
    \/ backoff
    \/ pageReturned
    \/ fetchDevices
    \/ devicesReturned
    \/ pageUpdate

Spec == Init /\ [][Next]_vars

\* The flow is never suspended forever: every await of the code settles.
FairSpec == Spec /\ WF_vars(Next)

\* ------------------------------------- concurrent callers of authenticate
\* Several flows use the one client at the same time (several iterate*
\* calls awaited together): each of them enters authenticate() from line
\* 313.  The flows interleave at the awaits of the code; between two awaits
\* a flow runs alone.  Only this.token is shared.  A flow that waits (for a
\* response, for a backoff) holds a timer in seconds; time passes when every
\* flow waits or is outside authenticate().
soloVars == <<attemptOptions, rateLimitState, pc, authRet, callRet, authVars,
              retryVars, callVars, pageVars>>

\* Flow f calls authenticate() (lines 78-83): a valid token is returned at
\* once, otherwise requestOAuth2Token starts its retry().
flowAuthenticate(f) ==
    /\ flows[f].pc = "idle"
    /\ flows' = [flows EXCEPT ![f] =
                   IF MustExchange
                   THEN [pc |-> "authRequestAttempt", context |-> NewContext,
                         timer |-> 0]
                   ELSE [IdleFlow EXCEPT !.pc = "returned"]]
    /\ UNCHANGED <<token, soloVars>>

\* Flow f sends its request to the token endpoint (lines 251-259).
flowRequestAttempt(f) ==
    /\ flows[f].pc = "authRequestAttempt"
    /\ \E lat \in Latencies :
         flows' = [flows EXCEPT
                     ![f].pc = "authInFlight",
                     ![f].context.attemptsRemaining = @ - 1,
                     ![f].timer = lat]
    /\ UNCHANGED <<token, soloVars>>

\* The answer to flow f's token request arrives: on success authenticate()
\* stores the new token (lines 295-306, 80); on failure handleError and
\* retry() decide (lines 274-293).
flowResponse(f) ==
    /\ flows[f].pc = "authInFlight"
    /\ flows[f].timer = 0
    /\ \E st \in TokenStatuses :
         IF st = 200
         THEN /\ \E exp \in ExpiresIns : token' = NewToken(exp)
              /\ flows' = [flows EXCEPT ![f] = [IdleFlow EXCEPT !.pc = "returned"]]
         ELSE LET h == AuthHandling([status |-> st])
                  ctx == flows[f].context IN
              /\ UNCHANGED token
              /\ IF h # "log" \/ ctx.attemptsRemaining = 0
                 THEN flows' = [flows EXCEPT ![f] = [IdleFlow EXCEPT !.pc = "failed"]]
                 ELSE LET next == [ctx EXCEPT !.attemptNum = @ + 1] IN
                      flows' = [flows EXCEPT ![f] =
                                  [pc |-> "authBackoff", context |-> next,
                                   timer |-> sleep(calculateDelay(next)) \div 1000]]
    /\ UNCHANGED soloVars

\* Flow f's backoff delay is over: retry() makes the next attempt.
flowBackoff(f) ==
    /\ flows[f].pc = "authBackoff"
    /\ flows[f].timer = 0
    /\ flows' = [flows EXCEPT ![f].pc = "authRequestAttempt"]
    /\ UNCHANGED <<token, soloVars>>

\* authenticate() has settled for flow f; the flow goes on and may call it
\* again later.
flowReturn(f) ==
    /\ flows[f].pc \in {"returned", "failed"}
    /\ flows' = [flows EXCEPT ![f] = IdleFlow]
    /\ UNCHANGED <<token, soloVars>>

\* The flows that wait for a timer.
Waiting == {f \in Flows : flows[f].pc \in {"authInFlight", "authBackoff"}}

\* The seconds until the next thing happens: a timer runs out or the held
\* token expires.
Due == {flows[f].timer : f \in Waiting} \cup
       (IF token # NoToken /\ isValidToken(token)
        THEN {token.expiresAt - getUnixTimeNow} ELSE {})

\* Time passes up to the next thing that happens, while no flow can run.
Pass ==
    /\ \A f \in Flows : flows[f].pc \in {"idle", "authInFlight", "authBackoff"}
    /\ Due # {}
    /\ \A d \in Due : d > 0
    /\ LET d == CHOOSE x \in Due : \A y \in Due : x <= y IN
       /\ token' = TokenAfter(d * 1000)
       /\ flows' = [f \in Flows |->
                      IF f \in Waiting
                      THEN [flows[f] EXCEPT !.timer = @ - d]
                      ELSE flows[f]]
    /\ UNCHANGED soloVars

ConcNext ==
    \/ \E f \in Flows : flowAuthenticate(f)
    \/ \E f \in Flows : flowRequestAttempt(f)
    \/ \E f \in Flows : flowResponse(f)
    \/ \E f \in Flows : flowBackoff(f)
    \/ \E f \in Flows : flowReturn(f)
    \/ Pass

ConcSpec == Init /\ [][ConcNext]_vars

\* ------------------------------ pagination runs without a failing request
\* One turn of the do-loop of paginateResources (lines 194-241) in a run in
\* which every page request succeeds at its first attempt and the callback
\* returns: the page arrives, the callback runs, the cursor is adopted,
\* seen and total are updated and the loop condition is evaluated.  The
\* server's collection is finite: the pages of a run deliver at most
\* MaxCollection items in sum, and the server reports any total.  This
\* specification follows the loop's own variables only; the records of the
\* run that Spec keeps (pageCount, handled, bulk) are not written.
paginateResourcesTurn ==
    /\ pc = "pageRequest"
    /\ \E n \in 0..MaxItems, t \in Totals :
         /\ seen + n <= MaxCollection
         /\ response' = [resources |-> n, total |-> t]
         /\ paginationParams' = Some([total |-> t])
         /\ seen' = seen + n
         /\ total' = t
    /\ finished' = Finished(seen', total')
    /\ pc' = IF finished' THEN "done" ELSE "pageRequest"
    /\ result' = IF finished' THEN Ok ELSE result
    /\ UNCHANGED <<clientVars, authRet, callRet, authVars, retryVars,
                   callVars, variant, pageCount, handled, bulk, flows>>

LoopNext ==
    \/ iterate
    \/ paginateResourcesTurn

\* Every await of the loop settles: the request is answered, the callback
\* returns.
LoopSpec == Init /\ [][LoopNext]_vars /\ WF_vars(LoopNext)

\* ===================================================== claims C1 - C10
Last(seq) == seq[Len(seq)]

\* C1 (as claimed).  When the first attempt of a resource request was
\* answered 401, the retry goes out only after one new token exchange has
\* replaced the held token, also when the held token had not expired.
C1_ForcedRefreshBeforeRetry ==
    (Len(attempts) >= 2 /\ outcomes[1] = 401)
        => attempts[2].tokenWrites = attempts[1].tokenWrites + 1

\* C2 (as claimed).  When the first and the second attempt of one request
\* were both answered 401, no third request is issued, and the call fails
\* with the AuthenticationError of the second attempt.
C2_Second401Aborts ==
    (Len(outcomes) >= 2 /\ outcomes[1] = 401 /\ outcomes[2] = 401)
        => /\ Len(attempts) = 2
           /\ pc \in {"handleError", "handled", "returned"}
           /\ pc = "returned" => callResult = ClassifyError(401)

\* C3.  Once an attempt was answered 403, the call does nothing but give
\* up: no further resource request, no token exchange, no rate-limit wait
\* and no backoff follows, the retry context is aborted whatever number of
\* attempts remains, and the call fails with the AuthorizationError.
C3_403AbortsImmediately ==
    (outcomes # <<>> /\ Last(outcomes) = 403)
        => /\ pc \in {"handleError", "handled", "returned"}
           /\ Len(attempts) = Len(outcomes)
           /\ pc = "handled" => attemptContext.aborted
           /\ pc = "returned" =>
                /\ callResult = [kind |-> "AuthorizationError", status |-> 403,
                                 endpoint |-> "resource"]
                /\ ~ lastWait.cooldown /\ lastWait.attempt = 0

\* A 403 on an attempt that leaves attempts to spare has ended the call.
C3_Witness ==
    /\ pc = "returned"
    /\ Len(outcomes) = 2
    /\ outcomes[2] = 403
    /\ attemptContext.attemptsRemaining > 0
    /\ callResult.kind = "AuthorizationError"

\* The last attempt was answered 429 and is still being handled.
After429 ==
    /\ outcomes # <<>>
    /\ Last(outcomes) = 429
    /\ Len(attempts) = Len(outcomes)

\* C4, state part.  After a 429 the call never leaves error handling
\* before handle429Error has completed for that attempt; it is not aborted;
\* it fails with the 429 only when no attempts remain.
C4_WaitState ==
    After429 =>
        /\ pc \in {"handleError", "handle429Error", "handled", "backoff",
                   "requestAttempt", "returned"}
        /\ pc \in {"handled", "backoff", "requestAttempt", "returned"}
             => lastWait.attempt = Len(attempts)
        /\ ~ attemptContext.aborted
        /\ pc = "returned" => attemptContext.attemptsRemaining = 0

\* C4, step part.  With attempts remaining, the steps after a 429 are
\* handle429Error, then the backoff, then the next attempt.
C4_WaitStep ==
    (After429 /\ attemptContext.attemptsRemaining > 0) =>
        /\ pc = "handleError" => pc' = "handle429Error"
        /\ pc = "handle429Error" => pc' = "handled"
        /\ pc = "handled" => pc' = "backoff"
        /\ pc = "backoff" => pc' = "requestAttempt"
        /\ pc = "requestAttempt" =>
             /\ pc' = "inFlight"
             /\ Len(attempts') = Len(attempts) + 1

\* C4.  A 429 with attempts remaining is followed by the completed
\* rate-limit wait and then by the next attempt, never by a failure of the
\* call and never by an attempt that starts before the wait has finished.
C4_429WaitsThenRetries == [] C4_WaitState /\ [][C4_WaitStep]_vars

\* The attempt after a 429 is about to go out, the wait behind it.
C4_Witness ==
    /\ pc = "requestAttempt"
    /\ After429
    /\ lastWait.attempt = Len(attempts)
    /\ lastWait.slept > 0

\* Every attempt of the call so far has failed and none remains.
Exhausted ==
    /\ Len(outcomes) = attemptOptions.maxAttempts
    /\ \A i \in DOMAIN outcomes : outcomes[i] # 200

\* C5 (as claimed).  A call issues at most maxAttempts resource requests,
\* and a call whose maxAttempts attempts have all failed fails with the
\* error of the last attempt.
C5_LastAttemptError ==
    /\ Len(attempts) <= attemptOptions.maxAttempts
    /\ (pc = "returned" /\ Exhausted)
         => callResult = ClassifyError(Last(outcomes))

\* C5 (amended).  A call issues at most maxAttempts resource requests,
\* whatever the outcomes of the attempts; once maxAttempts attempts have
\* failed no further request is issued, and the call fails with the error of
\* the last attempt, or, when that attempt was answered 401 and the
\* authenticate() of its handleError failed, with the error of that token
\* exchange.
C5_AtMostMaxAttempts ==
    /\ Len(attempts) <= attemptOptions.maxAttempts
    /\ Exhausted => pc \in {"handleError", "handle429Error", "handled",
                            "returned", "authenticate", "authRequestAttempt",
                            "authInFlight", "authHandleError", "authBackoff",
                            "authenticated"}
    /\ (pc = "returned" /\ Exhausted) =>
         \/ callResult = ClassifyError(Last(outcomes))
         \/ /\ Last(outcomes) = 401
            /\ callResult.endpoint = "token"
            /\ callResult.kind \in {"APIError", "FetchError",
                                    "AuthenticationError"}

\* All attempts were used up, on a 429, a 500 and a network fault.
C5_Witness ==
    /\ pc = "returned"
    /\ attemptOptions.maxAttempts = 3
    /\ Len(attempts) = 3
    /\ outcomes = <<429, 500, 0>>
    /\ callResult = ClassifyError(0)

\* C6 (as claimed).  Processing a page either raises seen or ends the loop:
\* no page leaves the loop running with seen unchanged.
C6_SeenGrowsOrLoopEnds ==
    [][pc = "pageUpdate" => (seen' > seen \/ pc' = "done")]_vars

\* C7, state part.  A second page request is only ever issued after a
\* first page that held resources.
C7_State == pageCount > 1 => seen > 0

\* C7, step part.  Processing an empty first page ends the run, whatever
\* total the page reports.
C7_Step ==
    (pc = "pageUpdate" /\ pageCount = 1 /\ response.resources = 0)
        => (pc' = "done" /\ finished' /\ result' = Ok /\ pageCount' = 1)

\* C7.  If the first page returns zero items the run terminates after
\* exactly one page request, for every reported total, absent included.
C7_EmptyFirstPageEndsRun == [] C7_State /\ [][C7_Step]_vars

\* The run ended after one empty page although the server reported a
\* total of two.
C7_Witness ==
    /\ pc = "done"
    /\ result = Ok
    /\ pageCount = 1
    /\ response = [resources |-> 0, total |-> Some(2)]
    /\ seen = 0

\* Pages 1..n in order.
Pages(n) == [i \in 1..n |-> i]

\* C8.  In a run through paginateResources with the caller's handler as the
\* callback, the handler has been invoked once for every fetched page, in
\* fetch order; the loop issues a further request exactly when, after the
\* page just processed, neither seen = 0 nor seen >= total holds.
C8_HandlerPerPage ==
    variant = "iteratePreventionPolicyMemberIds" =>
        /\ pc \in {"pageUpdate", "pageRequest"} => handled = Pages(pageCount)
        /\ (pc = "done" /\ result = Ok) =>
             /\ handled = Pages(pageCount)
             /\ total = response.total
             /\ (seen = 0 \/ (total # None /\ seen >= total[1]))
        /\ (pc = "pageRequest" /\ pageCount >= 1) =>
             /\ total = response.total
             /\ ~ (seen = 0 \/ (total # None /\ seen >= total[1]))
        /\ pc \in {"authenticate", "authRequestAttempt", "authInFlight",
                   "authHandleError", "authBackoff", "authenticated",
                   "requestAttempt", "inFlight", "handleError",
                   "handle429Error", "handled", "backoff", "returned"}
             => handled = Pages(pageCount - 1)

\* total = 2 served as two pages of one item: two requests, two handler
\* invocations, then the run is over.
C8_Witness ==
    /\ variant = "iteratePreventionPolicyMemberIds"
    /\ pc = "done"
    /\ result = Ok
    /\ pageCount = 2
    /\ handled = <<1, 2>>
    /\ seen = 2
    /\ total = Some(2)

\* The token authenticate() found on entry was usable: present and
\* expiresAt > now.
EntryValid == authEntry.present /\ authEntry.expiresAt > 0

\* C9.  authenticate() sends a request to the token endpoint exactly when
\* the token it finds is absent or has expiresAt <= now; it returns the
\* token it found exactly when that token has expiresAt > now, and
\* otherwise returns only after a new token has replaced it.
C9_ReuseExactlyWhenValid ==
    /\ pc \in {"authRequestAttempt", "authInFlight", "authHandleError",
               "authBackoff"} => ~ EntryValid
    /\ pc = "authenticated" =>
         /\ EntryValid => /\ authResult = Ok
                          /\ authEntry.requests = 0
                          /\ tokenWrites = authEntry.writes
         /\ ~ EntryValid => authEntry.requests >= 1
         /\ (~ EntryValid /\ authResult = Ok) =>
              tokenWrites = authEntry.writes + 1
         /\ authResult # Ok => tokenWrites = authEntry.writes

\* authenticate() found a token with expiresAt = now and returned a new one.
C9_Witness ==
    /\ pc = "authenticated"
    /\ authEntry.present
    /\ authEntry.expiresAt = 0
    /\ authResult = Ok
    /\ tokenWrites = authEntry.writes + 1

\* C10 (as claimed).  No attempt of a resource request goes out with a
\* bearer token whose expiresAt <= now at the time it is sent.
C10_ValidTokenOnEveryAttempt ==
    \A i \in DOMAIN attempts : attempts[i].valid

\* ==================================================== claims C11 - C20
\* C11 (as claimed).  Whenever authenticate() returns a token, reused or
\* newly exchanged, that token has expiresAt > now, whatever expires_in the
\* token endpoint sent.
C11_ReturnedTokenValid ==
    (pc = "authenticated" /\ authResult = Ok) => isValidToken(token)

\* The token endpoint answered the last exchange request with 400 or 403.
PermanentlyRejected == authError.status \in {400, 403}

\* C12, state part.  After a 400 or 403 from the token endpoint
\* authenticate() does nothing but fail: no further token request and no
\* backoff follows, however many attempts remain.
C12_State ==
    PermanentlyRejected =>
        /\ pc \in {"authHandleError", "authenticated"}
        /\ pc = "authenticated" =>
             /\ authResult # Ok
             /\ authResult.status = authError.status

\* C12, step part.  Any other failure of a token request is retried under
\* the attempt policy: while attempts remain, the backoff and then the
\* next token request follow; with none left, authenticate() fails with
\* that failure.
C12_Step ==
    /\ (pc = "authHandleError" /\ ~ PermanentlyRejected) =>
         IF authContext.attemptsRemaining > 0
         THEN /\ pc' = "authBackoff"
              /\ authContext'.attemptNum = authContext.attemptNum + 1
         ELSE /\ pc' = "authenticated"
              /\ authResult' = authError
    /\ pc = "authBackoff" => pc' = "authRequestAttempt"
    /\ pc = "authRequestAttempt" =>
         authEntry'.requests = authEntry.requests + 1

\* C12.  A 400 or 403 from the token endpoint ends authenticate() after
\* that request, without backoff and whatever maxAttempts is; every other
\* exchange failure is retried under the generic attempt policy.
C12_PermanentRejectionNotRetried == [] C12_State /\ [][C12_Step]_vars

\* A 500 was retried, the 400 that followed ended authenticate() with an
\* attempt to spare.
C12_Witness ==
    /\ pc = "authenticated"
    /\ authError.status = 400
    /\ authEntry.requests = 2
    /\ authContext.attemptsRemaining > 0
    /\ authResult # Ok

\* C13 (as claimed).  When authenticate() fails because the token endpoint
\* answered 400 or 403, the error it throws is an AuthenticationError.
C13_RejectionIsAuthenticationError ==
    (pc = "authenticated" /\ PermanentlyRejected)
        => authResult.kind = "AuthenticationError"

\* Token requests that are on their way at this moment.
ExchangesInFlight == {f \in Flows : flows[f].pc = "authInFlight"}

\* C14 (as claimed).  At no time is more than one request to the token
\* endpoint in flight for the client, however many flows call
\* authenticate() while the token is absent or expired.
C14_SingleExchangeInFlight == Cardinality(ExchangesInFlight) <= 1

\* handle429Error has run for the last attempt, on the rate-limit state
\* that attempt's response left.
Waited == lastWait.attempt > 0 /\ lastWait.attempt = Len(attempts)

\* C15 (as claimed).  handle429Error suspends for the cooldown period
\* whenever the response carried a remaining count <= reserveLimit, a
\* count of 0 included, and does not when the count is above reserveLimit.
C15_CooldownAtOrBelowReserve ==
    (Waited /\ remainingHeader # None) =>
        (lastWait.cooldown <=> remainingHeader[1] <= reserveLimit)

\* max(0, retryAfter + 60 - now) for the rate-limit state handle429Error
\* starts on; 0 when that state holds no retryAfter.
ClampedSleepSeconds ==
    IF rateLimitState.retryAfter = None THEN 0
    ELSE IF rateLimitState.retryAfter[1] + extraSeconds - getUnixTimeNow > 0
    THEN rateLimitState.retryAfter[1] + extraSeconds - getUnixTimeNow
    ELSE 0

\* C16 (as claimed).  handle429Error suspends for max(0, retryAfter + 60 -
\* now) seconds, 0 without a retryAfter, and the sleep duration it computes
\* is never negative.
C16_ComputedSleepNeverNegative ==
    [][pc = "handle429Error" =>
         /\ lastWait'.slept = ClampedSleepSeconds * 1000
         /\ lastWait'.sleepSeconds >= 0]_vars

\* C16 (amended).  handle429Error suspends for max(0, retryAfter + 60 - now)
\* seconds when the last response carried a retryAfter and for 0 seconds
\* when it did not.  The duration it computes (and logs) is retryAfter + 60
\* - now unclamped, negative for a retryAfter more than 60 seconds in the
\* past; sleep() of a negative duration does not suspend.
C16_SuspendsClampedSleep ==
    [][pc = "handle429Error" =>
         /\ lastWait'.slept = ClampedSleepSeconds * 1000
         /\ lastWait'.sleepSeconds =
              (IF rateLimitState.retryAfter = None THEN 0
               ELSE rateLimitState.retryAfter[1] + extraSeconds - getUnixTimeNow)
         /\ lastWait'.sleepSeconds < 0 => lastWait'.slept = 0]_vars

\* handle429Error ran on a retryAfter more than a minute in the past: the
\* computed duration is negative, nothing was slept.
C16_Witness ==
    /\ pc = "handled"
    /\ Waited
    /\ lastWait.sleepSeconds < 0
    /\ lastWait.slept = 0

\* seq lists page numbers in rising order, none twice.
Rising(seq) == \A i, j \in DOMAIN seq : i < j => seq[i] < seq[j]

\* C17, state part.  In an iterateDevices run no page is bulk-fetched
\* twice; the handler has been invoked for exactly the pages whose bulk
\* fetch has completed, except the one whose fetch is still running or has
\* failed; a page is requested, and its request runs, only when the handler
\* has returned for every page fetched so far; after the callback an empty
\* page has caused neither a bulk fetch nor a handler invocation, and a
\* non-empty one both.
C17_State ==
    variant = "iterateDevices" =>
        /\ Rising(bulk)
        /\ Len(handled) <= Len(bulk)
        /\ Len(bulk) <= Len(handled) + 1
        /\ \A i \in DOMAIN handled : handled[i] = bulk[i]
        /\ (pc = "pageRequest" \/ callRet = "page") => handled = bulk
        /\ pc = "pageUpdate" =>
             /\ handled = bulk
             /\ response.resources = 0 =>
                  (bulk = <<>> \/ Last(bulk) < pageCount)
             /\ response.resources # 0 =>
                  (bulk # <<>> /\ Last(bulk) = pageCount)

\* C17, step part.  A bulk fetch is started only for the non-empty page
\* just received; the handler is invoked only when that page's bulk fetch
\* has returned its records; an empty page goes straight to the loop's
\* bookkeeping.
C17_Step ==
    variant = "iterateDevices" =>
        /\ bulk' # bulk =>
             /\ pc = "fetchDevices"
             /\ response.resources # 0
             /\ bulk' = Append(bulk, pageCount)
        /\ handled' # handled =>
             /\ pc = "returned" /\ callRet = "devices" /\ callResult = Ok
             /\ Last(bulk) = pageCount
             /\ handled' = Append(handled, pageCount)
        /\ (pc = "returned" /\ callRet = "page" /\ callResult = Ok
               /\ response.resources = 0) =>
             /\ pc' = "pageUpdate"
             /\ bulk' = bulk
             /\ handled' = handled

\* C17.  iterateDevices skips the bulk fetch and the handler for an empty
\* identifier page; for a non-empty page it runs one bulk fetch for that
\* page, invokes the handler after the fetch has completed, and requests
\* the next page after the handler has returned.
C17_ListThenHydrate == [] C17_State /\ [][C17_Step]_vars

\* A run of two pages: the first was fetched in bulk and handled, the
\* second was empty and skipped.
C17_Witness ==
    /\ variant = "iterateDevices"
    /\ pc = "done"
    /\ result = Ok
    /\ pageCount = 2
    /\ response.resources = 0
    /\ bulk = <<1>>
    /\ handled = <<1>>

\* C18 (as claimed).  A pagination run over a finite collection whose page
\* requests all succeed ends: the loop stops requesting pages, whatever
\* total the server reports, none included.
C18_PaginationTerminates == <>(pc = "done")

\* C19 (as claimed).  When an attempt after the first is answered 401 and
\* the attempts before it failed otherwise (500, 429, network fault), the
\* call aborts with the AuthenticationError of that attempt: no
\* authenticate(), no wait and no further attempt follows.
C19_Later401Aborts ==
    (/\ Len(outcomes) >= 2
     /\ Len(attempts) = Len(outcomes)
     /\ Last(outcomes) = 401
     /\ \A i \in 1..(Len(outcomes) - 1) : outcomes[i] \in {0, 429, 500})
        => /\ pc \in {"handleError", "handled", "returned"}
           /\ pc = "handled" => attemptContext.aborted
           /\ pc = "returned" => callResult = ClassifyError(401)

\* The held token is the one authenticate() found on entry, older by the
\* time that has passed: absent if it was absent, else the same token,
\* still expired.
HeldTokenKept ==
    /\ tokenWrites = authEntry.writes
    /\ (token = NoToken) <=> ~ authEntry.present
    /\ token.expiresAt <= authEntry.expiresAt
    /\ MustExchange

\* C20, state part.  While an exchange is running or has failed the held
\* token is the one found on entry, so that a failed authenticate() leaves
\* a token the next authenticate() will not return.
C20_State ==
    /\ pc \in {"authRequestAttempt", "authInFlight", "authHandleError",
               "authBackoff"} => HeldTokenKept
    /\ (pc = "authenticated" /\ authResult # Ok) => HeldTokenKept

\* C20, step part.  this.token is assigned only by a step in which the
\* token endpoint answers 200, and then it becomes the token of that
\* answer; any other step leaves the token as it is but for its age.
C20_Step ==
    IF pc = "authInFlight" /\ authResult' = Ok
    THEN /\ pc' = "authenticated"
         /\ \E exp \in ExpiresIns : token' = NewToken(exp)
         /\ tokenWrites' = tokenWrites + 1
    ELSE /\ token'.token = token.token
         /\ token'.expiresAt <= token.expiresAt
         /\ tokenWrites' \in {tokenWrites, 0}

\* C20.  A failed token exchange leaves the held token unchanged; the held
\* token only ever changes to the result of a successful exchange.
C20_FailedExchangeKeepsToken == [] C20_State /\ [][C20_Step]_vars

\* authenticate() found an expired token, sent two token requests and
\* failed; the expired token is still held.
C20_Witness ==
    /\ pc = "authenticated"
    /\ authResult # Ok
    /\ authEntry.present
    /\ authEntry.requests = 2
    /\ token # NoToken
    /\ ~ isValidToken(token)

====
